---- MODULE Spec2Model ----
(***************************************************************************)
(* A model of dashboard.py: the cached load of the master CSV file        *)
(* (load_data_from_disk), the three chart helpers, and main(), the render *)
(* that runs once per user interaction.                                    *)
(*                                                                         *)
(* Representation.  A CSV cell is its text.  A DataFrame cell is a record *)
(* [t, n, s]: t = "nan" (missing), "num" (a number, n, in tenths: 0.5 is  *)
(* 5 and 11 is 110) or "str" (the text s).  A table is [cols, rows], each *)
(* row a function from the column names to cells; the order of columns is *)
(* not modelled.  A Python exception that leaves main() uncaught is the   *)
(* render status "exception".                                              *)
(***************************************************************************)
EXTENDS Integers, Sequences, FiniteSets, TLC

VARIABLES
    file,       \* the CSV file on disk: [state, cols, rows]
    cache,      \* the st.cache_data entry of load_data_from_disk: [full, value]
    df,         \* main's working table as the last render left it
    out,        \* what the last render displayed
    chart,      \* result of the last direct call of plot_categorical_chart
    tie_order   \* how this build's sort leaves values of equal count, once seen

vars == <<file, cache, df, out, chart, tie_order>>

(***************************************************************************)
(* Bounds of the model.                                                    *)
(***************************************************************************)
MaxRows == 3
MaxTopN == 3

(***************************************************************************)
(* Generic helpers on sequences.                                           *)
(***************************************************************************)
Min(a, b) == IF a <= b THEN a ELSE b

Range(s) == {s[i] : i \in 1..Len(s)}

\* The subsequence of s at the indices in idx, in increasing index order.
AtIndices(s, idx) ==
    [k \in 1..Cardinality(idx) |->
        s[CHOOSE i \in idx : Cardinality({j \in idx : j < i}) = k - 1]]

SeqsUpTo(S, n) == UNION {[1..k -> S] : k \in 0..n}

(***************************************************************************)
(* Cells.                                                                  *)
(***************************************************************************)
NaN == [t |-> "nan", n |-> 0, s |-> ""]
Num(x) == [t |-> "num", n |-> x, s |-> ""]
Str(x) == [t |-> "str", n |-> 0, s |-> x]

IsNa(c) == c.t = "nan"
NotNa(c) == c.t /= "nan"

(***************************************************************************)
(* Module constants of dashboard.py.                                       *)
(***************************************************************************)
AI_COLS_CHECK == {"ai_theme", "ai_sentiment", "ai_notes"}

MOOD_COLS == <<"mood_aggressive", "mood_happy", "mood_party", "mood_relaxed", "mood_sad">>

(***************************************************************************)
(* pd.read_csv.  Cells whose text is one of pandas' default NA strings    *)
(* are missing.  A column all of whose other cells parse as numbers is a  *)
(* numeric column; any other column keeps every cell as text.             *)
(***************************************************************************)
NA_VALUES == {"", "#N/A", "#N/A N/A", "#NA", "-1.#IND", "-1.#QNAN", "-NaN", "-nan",
              "1.#IND", "1.#QNAN", "<NA>", "N/A", "NA", "NULL", "NaN", "None",
              "n/a", "nan", "null"}

\* The numeric texts of the model and their values, in tenths.
ParseFloat == ("0" :> 0) @@ ("1" :> 10) @@ ("2" :> 20) @@ ("3" :> 30) @@ ("4" :> 40)
           @@ ("5" :> 50) @@ ("6" :> 60) @@ ("7" :> 70) @@ ("8" :> 80) @@ ("9" :> 90)
           @@ ("10" :> 100) @@ ("11" :> 110) @@ ("12" :> 120)
           @@ ("0.2" :> 2) @@ ("0.5" :> 5) @@ ("0.7" :> 7)

IsNumText(s) == s \in DOMAIN ParseFloat

ColumnIsNumeric(f, c) ==
    \A i \in 1..Len(f.rows) : f.rows[i][c] \in NA_VALUES \/ IsNumText(f.rows[i][c])

ReadCell(f, c, i) ==
    LET text == f.rows[i][c] IN
    IF text \in NA_VALUES THEN NaN
    ELSE IF ColumnIsNumeric(f, c) THEN Num(ParseFloat[text])
    ELSE Str(text)

ReadCsv(f) ==
    [cols |-> f.cols,
     rows |-> [i \in 1..Len(f.rows) |-> [c \in f.cols |-> ReadCell(f, c, i)]]]

(***************************************************************************)
(* pd.to_numeric(errors='coerce') on one cell.                             *)
(***************************************************************************)
ToNumeric(c) ==
    IF c.t = "str"
    THEN (IF IsNumText(c.s) THEN Num(ParseFloat[c.s]) ELSE NaN)
    ELSE c

\* The columns load_data_from_disk coerces.
CoercedCols(cols) == {c \in Range(MOOD_COLS) : c \in cols}

(***************************************************************************)
(* load_data_from_disk, the body under the cache decorator: None when the *)
(* file is absent or cannot be parsed, else the table with the mood       *)
(* columns coerced.                                                        *)
(***************************************************************************)
None == [ok |-> FALSE, cols |-> {}, rows |-> <<>>]

CleanMood(t) ==
    [cols |-> t.cols,
     rows |-> [i \in 1..Len(t.rows) |->
                 [c \in t.cols |->
                     IF c \in CoercedCols(t.cols) THEN ToNumeric(t.rows[i][c])
                     ELSE t.rows[i][c]]]]

load_data_from_disk(f) ==
    IF f.state = "absent" THEN None
    ELSE IF f.state = "malformed" THEN None
    ELSE LET t == CleanMood(ReadCsv(f)) IN [ok |-> TRUE, cols |-> t.cols, rows |-> t.rows]

(***************************************************************************)
(* st.cache_data around load_data_from_disk.  The function has no         *)
(* arguments, so there is one entry; it is filled by the first call and   *)
(* returned by every later call until the cache is cleared.               *)
(***************************************************************************)
EmptyCache == [full |-> FALSE, value |-> None]

CacheKeyMatches(c, f) == c.full

CachedLoad(c, f) == IF CacheKeyMatches(c, f) THEN c.value ELSE load_data_from_disk(f)

CacheAfterLoad(c, f) ==
    IF CacheKeyMatches(c, f) THEN c ELSE [full |-> TRUE, value |-> load_data_from_disk(f)]

(***************************************************************************)
(* DataFrame operations used by the charts.                                *)
(***************************************************************************)
NoTable == [cols |-> {}, rows |-> <<>>]

\* df.dropna(subset=...): the rows with a value in every column of subset.
DropNa(t, subset) ==
    [cols |-> t.cols,
     rows |-> AtIndices(t.rows, {i \in 1..Len(t.rows) : \A c \in subset : NotNa(t.rows[i][c])})]

\* df.loc[:, name] = values, on the frame it is given; values[i] is for row i.
AddColumn(t, name, values) ==
    [cols |-> t.cols \cup {name},
     rows |-> [i \in 1..Len(t.rows) |-> (name :> values[i]) @@ t.rows[i]]]


Column(t, c) == [i \in 1..Len(t.rows) |-> t.rows[i][c]]

\* df[column].dropna().empty
AllMissing(t, c) == \A i \in 1..Len(t.rows) : IsNa(t.rows[i][c])

\* Series.unique(): the distinct values in order of first appearance.
Unique(s) == AtIndices(s, {k \in 1..Len(s) : \A j \in 1..(k - 1) : s[j] /= s[k]})

CountOf(s, v) == Cardinality({i \in 1..Len(s) : s[i] = v})

\* A sort of the indices 1..n by before, a strict total order on them:
\* before[j][i] says that j comes before i.
SortIndices(n, before) ==
    [k \in 1..n |-> CHOOSE i \in 1..n : Cardinality({j \in 1..n : before[j][i]}) = k - 1]

(***************************************************************************)
(* The order of equal counts.  value_counts() sorts the counts with a     *)
(* sort that is not stable, so where values of equal count end up depends *)
(* on the build of pandas and numpy, and is one fixed order for the build. *)
(* A tie order ranks the distinct values by the position of their first   *)
(* appearance: of two values of equal count the one of lower rank comes   *)
(* first.  Until a chart has counted a tie the order is unobserved.        *)
(***************************************************************************)
TieOrders == Permutations(1..MaxRows)

Unobserved == <<>>

Rank(ties, i) == IF i \in DOMAIN ties THEN ties[i] ELSE i

(***************************************************************************)
(* Series.value_counts(): missing values are dropped, the distinct values *)
(* are counted and listed by descending count; values of equal count come *)
(* in the tie order of the build.                                          *)
(***************************************************************************)
ValueCountsOrder(keys, cnt, ties) ==
    SortIndices(Len(keys),
        [j \in 1..Len(keys) |-> [i \in 1..Len(keys) |->
            cnt[j] > cnt[i] \/ (cnt[j] = cnt[i] /\ Rank(ties, j) < Rank(ties, i))]])

value_counts(s, ties) ==
    LET present == AtIndices(s, {i \in 1..Len(s) : NotNa(s[i])})
        keys == Unique(present)
        cnt == [k \in 1..Len(keys) |-> CountOf(present, keys[k])]
        order == ValueCountsOrder(keys, cnt, ties)
    IN  [k \in 1..Len(keys) |-> [value |-> keys[order[k]], count |-> cnt[order[k]]]]

\* .head(n)
Head_n(s, n) == SubSeq(s, 1, Min(n, Len(s)))

(***************************************************************************)
(* Charts.  A chart is the data it is drawn from; NoChart is the None     *)
(* the helpers return.                                                     *)
(***************************************************************************)
NoChart == [drawn |-> FALSE, column |-> "", data |-> <<>>]

Chart(column, data) == [drawn |-> TRUE, column |-> column, data |-> data]

key_map == (0 :> "C") @@ (10 :> "C#") @@ (20 :> "D") @@ (30 :> "D#") @@ (40 :> "E")
        @@ (50 :> "F") @@ (60 :> "F#") @@ (70 :> "G") @@ (80 :> "G#") @@ (90 :> "A")
        @@ (100 :> "A#") @@ (110 :> "B")

\* key_map.get(x, default)
KeyMapGet(x, default) ==
    IF x.t = "num" /\ x.n \in DOMAIN key_map THEN Str(key_map[x.n]) ELSE default

\* The default of key_map.get in plot_categorical_chart: pd.NA.
CategoricalKeyDefault == NaN

\* The frame plot_categorical_chart counts: for key_key, the rows whose key
\* maps to a note name, with the note name in the column key_name.
CategoricalData(t, column) ==
    LET data == DropNa(t, {column}) IN
    IF column = "key_key"
    THEN DropNa(AddColumn(data, "key_name",
                    [i \in 1..Len(data.rows) |->
                        KeyMapGet(data.rows[i]["key_key"], CategoricalKeyDefault)]),
                {"key_name"})
    ELSE data

CategoricalColumn(column) == IF column = "key_key" THEN "key_name" ELSE column

\* CategoricalCounts without .head(top_n).
CategoricalCounts_NoHead(s, top_n, ties) == value_counts(s, ties)

CategoricalCounts(s, top_n, ties) == Head_n(value_counts(s, ties), top_n)

plot_categorical_chart(t, column, top_n, ties) ==
    IF column \notin t.cols \/ AllMissing(t, column) THEN NoChart
    ELSE LET data == CategoricalData(t, column)
             col == CategoricalColumn(column)
             chart_data == CategoricalCounts(Column(data, col), top_n, ties)
         IN  IF Len(data.rows) = 0 \/ Len(chart_data) = 0 THEN NoChart
             ELSE Chart(col, chart_data)

\* The chart holds the rows with a value; the binning is left to the renderer.
plot_histogram(t, column) ==
    IF column \notin t.cols \/ AllMissing(t, column) THEN NoChart
    ELSE LET data == DropNa(t, {column}) IN
         IF Len(data.rows) = 0 THEN NoChart ELSE Chart(column, Column(data, column))

PIE_TOP_N == 10

Sum(f) ==
    LET RECURSIVE S(_)
        S(k) == IF k = 0 THEN 0 ELSE f[k].count + S(k - 1)
    IN  S(Len(f))

\* percent is count / total, kept as the pair <<count, total>>.
plot_pie_chart(t, column, ties) ==
    IF column \notin t.cols \/ AllMissing(t, column) THEN NoChart
    ELSE LET data == DropNa(t, {column})
             chart_data == Head_n(value_counts(Column(data, column), ties), PIE_TOP_N)
             total == Sum(chart_data)
         IN  IF Len(data.rows) = 0 \/ Len(chart_data) = 0 THEN NoChart
             ELSE Chart(column,
                        [k \in 1..Len(chart_data) |->
                            [value |-> chart_data[k].value,
                             count |-> chart_data[k].count,
                             percent |-> <<chart_data[k].count, total>>]])

(***************************************************************************)
(* Python strings that are ordered or concatenated (the display names):   *)
(* the text with its code points, which is what str comparison reads.     *)
(***************************************************************************)
CodePoints == ("A" :> <<65>>) @@ ("B" :> <<66>>) @@ ("a" :> <<97>>) @@ ("X" :> <<88>>)
           @@ ("Y" :> <<89>>) @@ ("7" :> <<55>>) @@ ("N/A" :> <<78, 47, 65>>)
           @@ (" | " :> <<32, 124, 32>>)

Lit(text) == [text |-> text, codes |-> CodePoints[text]]

Concat(a, b) == [text |-> a.text \o b.text, codes |-> a.codes \o b.codes]

\* a < b for Python strings.
StrLess(a, b) ==
    \E k \in 1..(Len(b.codes)) :
        /\ \A j \in 1..(k - 1) : j <= Len(a.codes) /\ a.codes[j] = b.codes[j]
        /\ (k > Len(a.codes) \/ a.codes[k] < b.codes[k])

OVERVIEW == [text |-> "[ (General Dashboard) ]",
             codes |-> <<91, 32, 20027, 20736, 34920, 26495, 32, 40, 71, 101, 110, 101,
                         114, 97, 108, 32, 68, 97, 115, 104, 98, 111, 97, 114, 100, 41,
                         32, 93>>]

\* OVERVIEW.text leaves out the four CJK characters of the literal (the module
\* is ASCII); OVERVIEW.codes has every code point of it.
NoLabel == [text |-> "", codes |-> <<>>]

(***************************************************************************)
(* main(), lines 147-187: the working copy, the annotation flag, the      *)
(* placeholder identity columns, the display name and the selection list. *)
(***************************************************************************)
ai_available(t) == AI_COLS_CHECK \subseteq t.cols

FAILURE_MARKERS == {Str("SKIPPED"), Str("ERROR")}

\* has_ai_analysis with only the SKIPPED marker excluded.
has_ai_analysis_SkippedOnly(r, avail) ==
    IF avail THEN NotNa(r["ai_theme"]) /\ r["ai_theme"] /= Str("SKIPPED")
    ELSE FALSE

has_ai_analysis(r, avail) ==
    IF avail THEN NotNa(r["ai_theme"]) /\ r["ai_theme"] \notin FAILURE_MARKERS
    ELSE FALSE

WithFlag(t) ==
    AddColumn(t, "has_ai_analysis",
        [i \in 1..Len(t.rows) |-> has_ai_analysis(t.rows[i], ai_available(t))])

WithIdentity(t) ==
    LET t1 == IF "track_name" \in t.cols THEN t
              ELSE AddColumn(t, "track_name", [i \in 1..Len(t.rows) |-> Str("N/A")])
    IN  IF "album_title" \in t1.cols THEN t1
        ELSE AddColumn(t1, "album_title", [i \in 1..Len(t.rows) |-> Str("N/A")])

\* str + number raises TypeError: a numeric identity cell ends the render.
DisplayNameRaises(t) ==
    \E i \in 1..Len(t.rows) :
        t.rows[i]["track_name"].t = "num" \/ t.rows[i]["album_title"].t = "num"

\* .fillna('N/A')
Fill(c) == IF IsNa(c) THEN Lit("N/A") ELSE Lit(c.s)

display_name(r) ==
    Concat(Concat(Fill(r["track_name"]), Lit(" | ")), Fill(r["album_title"]))

WithDisplayName(t) ==
    AddColumn(t, "display_name", [i \in 1..Len(t.rows) |-> display_name(t.rows[i])])

\* ListBefore with the annotation flag left out of the sort keys.
ListBefore_NameOnly(t, j, i) ==
    \/ StrLess(t.rows[j]["display_name"], t.rows[i]["display_name"])
    \/ t.rows[j]["display_name"] = t.rows[i]["display_name"] /\ j < i

\* sort_values(by=['has_ai_analysis', 'display_name'], ascending=[False, True]),
\* a stable sort: row j comes before row i.
ListBefore(t, j, i) ==
    LET a == t.rows[j]
        b == t.rows[i]
    IN  \/ a["has_ai_analysis"] /\ ~b["has_ai_analysis"]
        \/ /\ a["has_ai_analysis"] = b["has_ai_analysis"]
           /\ \/ StrLess(a["display_name"], b["display_name"])
              \/ a["display_name"] = b["display_name"] /\ j < i

df_sorted_for_list(t) ==
    LET order == SortIndices(Len(t.rows),
                     [j \in 1..Len(t.rows) |-> [i \in 1..Len(t.rows) |-> ListBefore(t, j, i)]])
    IN  [cols |-> t.cols, rows |-> [k \in 1..Len(t.rows) |-> t.rows[order[k]]]]

song_list(t) == <<OVERVIEW>> \o Unique(Column(df_sorted_for_list(t), "display_name"))

(***************************************************************************)
(* main(), lines 191-308: the overview.                                    *)
(***************************************************************************)
THEME_TOP_N == 10
GENRE_TOP_N == 15

songs_with_lyrics(t) ==
    IF "lyrics_text" \in t.cols
    THEN Cardinality({i \in 1..Len(t.rows) : NotNa(t.rows[i]["lyrics_text"])})
    ELSE 0

songs_with_ai(t) == Cardinality({i \in 1..Len(t.rows) : t.rows[i]["has_ai_analysis"]})

\* df_analyzed without the filter on has_ai_analysis.
df_analyzed_Unfiltered(t) == [cols |-> t.cols, rows |-> t.rows]

df_analyzed(t) ==
    [cols |-> t.cols,
     rows |-> AtIndices(t.rows, {i \in 1..Len(t.rows) : t.rows[i]["has_ai_analysis"]})]

AiChartsDrawn(t) == ai_available(t) /\ songs_with_ai(t) > 0

ai_message(t) ==
    IF AiChartsDrawn(t) THEN "charts"
    ELSE IF ~ai_available(t) THEN "no_ai_columns"
    ELSE "no_ai_results"

\* The sentiment pie is drawn from the counts as they are, with no emptiness check.
chart_sentiment(t, ties) ==
    IF AiChartsDrawn(t) /\ "ai_sentiment_category" \in t.cols
    THEN Chart("ai_sentiment_category",
               value_counts(Column(df_analyzed(t), "ai_sentiment_category"), ties))
    ELSE NoChart

chart_theme(t, ties) ==
    IF AiChartsDrawn(t)
    THEN Chart("ai_theme",
               Head_n(value_counts(Column(df_analyzed(t), "ai_theme"), ties), THEME_TOP_N))
    ELSE NoChart

\* df.dropna(subset=['key_key', 'key_scale']) raises KeyError without both columns.
KeyScaleKeyError(t) == ~({"key_key", "key_scale"} \subseteq t.cols)

\* The default of key_map.get in the key + scale chart: the text 'N/A'.
KeyScaleDefault == Str("N/A")

\* df_key_scale: the per-chart copy with its two derived columns.
df_key_scale(t) ==
    LET base == DropNa(t, {"key_key", "key_scale"})
        named == AddColumn(base, "key_name",
                     [i \in 1..Len(base.rows) |->
                         KeyMapGet(base.rows[i]["key_key"], KeyScaleDefault)])
    IN  AddColumn(named, "key_scale_combined",
            [i \in 1..Len(named.rows) |->
                Str(named.rows[i]["key_name"].s \o " " \o named.rows[i]["key_scale"].s)])

\* key_name + ' ' + key_scale raises TypeError when key_scale holds numbers.
KeyScaleTypeError(t) ==
    LET base == DropNa(t, {"key_key", "key_scale"}) IN
    \E i \in 1..Len(base.rows) : base.rows[i]["key_scale"].t = "num"

KeyScaleRaises(t) == KeyScaleKeyError(t) \/ KeyScaleTypeError(t)

chart_ks(t, ties) ==
    IF Len(DropNa(t, {"key_key", "key_scale"}).rows) = 0 THEN NoChart
    ELSE plot_pie_chart(df_key_scale(t), "key_scale_combined", ties)

mood_cols_present(t) == {c \in Range(MOOD_COLS) : c \in t.cols}

\* np.where(df_mood[mood_col] >= 0.5, ...); the two labels are written in ASCII.
MoodBin(c) == IF c.n >= 5 THEN Str("high (>=0.5)") ELSE Str("low (<0.5)")

\* df_mood: the per-chart copy with its derived column.
df_mood(t, col) ==
    LET base == DropNa(t, {col}) IN
    AddColumn(base, col \o "_bin", [i \in 1..Len(base.rows) |-> MoodBin(base.rows[i][col])])

\* text >= 0.5 raises TypeError.
MoodRaises(t) ==
    \E col \in mood_cols_present(t) : \E i \in 1..Len(t.rows) : t.rows[i][col].t = "str"

chart_mood(t, ties) ==
    [col \in Range(MOOD_COLS) |->
        IF col \in t.cols /\ Len(DropNa(t, {col}).rows) > 0
        THEN plot_pie_chart(df_mood(t, col), col \o "_bin", ties)
        ELSE NoChart]

\* TableAfterCharts with the key + scale columns written to the working
\* table itself instead of a copy.
TableAfterCharts_InPlace(t) ==
    IF Len(DropNa(t, {"key_key", "key_scale"}).rows) = 0 THEN t
    ELSE AddColumn(AddColumn(t, "key_name",
                       [i \in 1..Len(t.rows) |-> KeyMapGet(t.rows[i]["key_key"], KeyScaleDefault)]),
                   "key_scale_combined", [i \in 1..Len(t.rows) |-> NaN])

\* Every derived chart column is written to a copy: the working table is
\* the same before and after the charts.
TableAfterCharts(t) == t

(***************************************************************************)
(* What a render displays.                                                 *)
(***************************************************************************)
NoAiBlock == [shown |-> FALSE, theme |-> NaN, category |-> NaN, sentiment |-> NaN,
              notes |-> NaN]

NoFields == [c \in {} |-> NaN]

BlankOut ==
    [status |-> "none", view |-> "none", selected |-> NoLabel, song_list |-> <<>>,
     total_songs |-> 0, songs_with_lyrics |-> 0, songs_with_ai |-> 0,
     ai_message |-> "",
     chart_sentiment |-> NoChart, chart_theme |-> NoChart, chart_genre |-> NoChart,
     chart_ks |-> NoChart, chart_timbre |-> NoChart,
     chart_mood |-> [col \in Range(MOOD_COLS) |-> NoChart], chart_dance |-> NoChart,
     song_index |-> 0, title |-> NaN, album |-> NaN, lyrics |-> NaN,
     ai_block |-> NoAiBlock, credits |-> NoFields, other_fields |-> NoFields]

\* The overview up to the key + scale chart, which can raise.
OverviewHead(t, o, ties) ==
    [o EXCEPT !.view = "overview",
              !.total_songs = Len(t.rows),
              !.songs_with_lyrics = songs_with_lyrics(t),
              !.songs_with_ai = songs_with_ai(t),
              !.ai_message = ai_message(t),
              !.chart_sentiment = chart_sentiment(t, ties),
              !.chart_theme = chart_theme(t, ties),
              !.chart_genre = plot_categorical_chart(t, "genre_ros", GENRE_TOP_N, ties)]

Overview(t, o, ties) ==
    LET head == OverviewHead(t, o, ties) IN
    IF KeyScaleRaises(t) THEN [head EXCEPT !.status = "exception"]
    ELSE LET mid == [head EXCEPT !.chart_ks = chart_ks(t, ties),
                                 !.chart_timbre = plot_pie_chart(t, "timbre", ties)]
         IN  IF MoodRaises(t) THEN [mid EXCEPT !.status = "exception"]
             ELSE [mid EXCEPT !.status = "ok",
                              !.chart_mood = chart_mood(t, ties),
                              !.chart_dance = plot_histogram(t, "danceability")]

(***************************************************************************)
(* main(), lines 311-382: the detail view of one song.                     *)
(***************************************************************************)
\* The four credit columns, named in ASCII (lyricist, composer, producer,
\* arranger stand for the four CJK column names of the source).
CREDIT_COLS == {"lyricist", "composer", "producer", "arranger"}

manual_cols == {"track_name", "album_title", "lyrics_text"} \cup CREDIT_COLS
               \cup {"ai_theme", "ai_sentiment", "ai_notes", "display_name",
                     "has_ai_analysis", "ai_sentiment_category"}

\* col.endswith('_bin'), for the column names of the model.
EndsWithBin(col) == \E stem \in Range(MOOD_COLS) \cup {"tempo"} : col = stem \o "_bin"

temp_cols(r) ==
    {c \in DOMAIN r : EndsWithBin(c) \/ c = "key_name" \/ c = "key_scale_combined"}

\* song_data.get(col, 'N/A')
Get(r, col) == IF col \in DOMAIN r THEN r[col] ELSE Str("N/A")

\* pd.notna(song_data.get(col)): an absent column gives None.
Present(r, col) == col \in DOMAIN r /\ NotNa(r[col])

Matches(t, sel) == {i \in 1..Len(t.rows) : t.rows[i]["display_name"] = sel}

\* ResolveRow taking the last match (iloc[-1]).
ResolveRow_Last(matches) == CHOOSE i \in matches : \A j \in matches : i >= j

\* song_data_rows.iloc[0]
ResolveRow(matches) == CHOOSE i \in matches : \A j \in matches : i <= j

ai_block(r, avail) ==
    IF avail /\ Present(r, "ai_theme") /\ r["ai_theme"] \notin FAILURE_MARKERS
    THEN [shown |-> TRUE, theme |-> Get(r, "ai_theme"),
          category |-> Get(r, "ai_sentiment_category"),
          sentiment |-> Get(r, "ai_sentiment"), notes |-> Get(r, "ai_notes")]
    ELSE NoAiBlock

ExcludedFields(r) == manual_cols \cup temp_cols(r)

other_fields(r) ==
    [c \in {c \in DOMAIN r \ ExcludedFields(r) : NotNa(r[c])} |-> r[c]]

Detail(t, sel, o) ==
    LET matches == Matches(t, sel) IN
    IF matches = {} THEN [o EXCEPT !.view = "detail", !.status = "error"]
    ELSE LET i == ResolveRow(matches)
             song_data == t.rows[i]
         IN  [o EXCEPT !.view = "detail", !.status = "ok",
                       !.song_index = i,
                       !.title = Get(song_data, "track_name"),
                       !.album = Get(song_data, "album_title"),
                       !.lyrics = IF Present(song_data, "lyrics_text")
                                  THEN song_data["lyrics_text"] ELSE NaN,
                       !.ai_block = ai_block(song_data, ai_available(t)),
                       !.credits = [c \in CREDIT_COLS |-> Get(song_data, c)],
                       !.other_fields = other_fields(song_data)]

(***************************************************************************)
(* main(): one render, for the selection the select box returns.          *)
(***************************************************************************)
main(raw, sel, ties) ==
    IF ~raw.ok THEN [df |-> NoTable, out |-> [BlankOut EXCEPT !.status = "stopped"]]
    ELSE LET t0 == [cols |-> raw.cols, rows |-> raw.rows]
             t1 == WithIdentity(WithFlag(t0))
         IN  IF DisplayNameRaises(t1)
             THEN [df |-> t1, out |-> [BlankOut EXCEPT !.status = "exception"]]
             ELSE LET t2 == WithDisplayName(t1)
                      o == [BlankOut EXCEPT !.selected = sel, !.song_list = song_list(t2)]
                  IN  IF sel = OVERVIEW
                      THEN [df |-> TableAfterCharts(t2), out |-> Overview(t2, o, ties)]
                      ELSE [df |-> t2, out |-> Detail(t2, sel, o)]

(***************************************************************************)
(* Inputs.                                                                 *)
(***************************************************************************)
\* selected_song = st.sidebar.selectbox(options=song_list, index=0): the value
\* returned is an entry of the song_list of this very run.  When the script
\* ends before the select box (st.stop() at line 145, or the TypeError of the
\* display name at line 168) nothing is selected and main() ignores the value.
selectbox(raw) ==
    IF ~raw.ok THEN {OVERVIEW}
    ELSE LET t1 == WithIdentity(WithFlag([cols |-> raw.cols, rows |-> raw.rows]))
         IN  IF DisplayNameRaises(t1) THEN {OVERVIEW}
             ELSE Range(song_list(WithDisplayName(t1)))

Absent == [state |-> "absent", cols |-> {}, rows |-> <<>>]
Malformed == [state |-> "malformed", cols |-> {}, rows |-> <<>>]

\* The CSV files with one of the column sets colsets and up to MaxRows rows
\* drawn from rowset, a set of records over all the columns.
Tables(rowset, colsets) ==
    {[state |-> "csv", cols |-> C,
      rows |-> [i \in 1..Len(r) |-> [c \in C |-> r[i][c]]]] :
        r \in SeqsUpTo(rowset, MaxRows), C \in colsets}

SessionCols == {"track_name", "album_title", "ai_theme", "ai_sentiment", "ai_notes",
                "ai_sentiment_category", "key_key", "key_scale"}

SessionRows == [track_name : {"A"}, album_title : {"X"}, ai_theme : {"love", "SKIPPED"},
                ai_sentiment : {"sad"}, ai_notes : {"n"}, ai_sentiment_category : {"neg"},
                key_key : {"0"}, key_scale : {"major"}]

SessionFiles == {Absent, Malformed} \cup Tables(SessionRows, {SessionCols})

(***************************************************************************)
(* Actions.                                                                *)
(***************************************************************************)
NoCall == [called |-> FALSE, table |-> NoTable, column |-> "", top_n |-> 0,
           result |-> NoChart]

\* The charts of a render that are drawn from counts.
CountCharts(o) ==
    {o.chart_sentiment, o.chart_theme, o.chart_genre, o.chart_ks, o.chart_timbre}
        \cup {o.chart_mood[col] : col \in DOMAIN o.chart_mood}

\* The counts behind the chart hold two values of equal count.
CountsTie(c) == \E j, k \in DOMAIN c.data : j /= k /\ c.data[j].count = c.data[k].count

\* The tie orders a step can meet: the one the build has shown, any one when
\* the step is the first to count a tie, and none when it counts no tie.
TieOrdersMet(tied) ==
    IF tie_order /= Unobserved THEN {tie_order}
    ELSE IF tied THEN TieOrders ELSE {Unobserved}

InitWith(files) ==
    /\ file \in files
    /\ cache = EmptyCache
    /\ df = NoTable
    /\ out = BlankOut
    /\ chart = NoCall
    /\ tie_order = Unobserved

\* One user interaction: the script runs from the top, with one of the
\* entries of the select box of this run selected.
Render ==
    LET raw == CachedLoad(cache, file) IN
    \E sel \in selectbox(raw) :
        \E plain \in {main(raw, sel, Unobserved)} :
            LET tied == \E c \in CountCharts(plain.out) : CountsTie(c) IN
            \E ties \in TieOrdersMet(tied) :
                \E m \in {IF ties = Unobserved THEN plain ELSE main(raw, sel, ties)} :
                    /\ cache' = CacheAfterLoad(cache, file)
                    /\ df' = m.df
                    /\ out' = m.out
                    /\ tie_order' = ties
                    /\ UNCHANGED <<file, chart>>

\* The file is replaced, removed or damaged by whatever produces it.
WriteFile(f) ==
    /\ f /= file
    /\ file' = f
    /\ UNCHANGED <<cache, df, out, chart, tie_order>>

\* The user clears the cache (st.cache_data.clear()).
ClearCache ==
    /\ cache.full
    /\ cache' = EmptyCache
    /\ UNCHANGED <<file, df, out, chart, tie_order>>

\* A call of plot_categorical_chart on the working table.
PlotCategorical(column, top_n) ==
    /\ out.status = "ok"
    /\ \E uncut \in {plot_categorical_chart(df, column, Len(df.rows), Unobserved)} :
       \E ties \in TieOrdersMet(CountsTie(uncut)) :
           /\ chart' = [called |-> TRUE, table |-> df, column |-> column, top_n |-> top_n,
                        result |-> plot_categorical_chart(df, column, top_n, ties)]
           /\ tie_order' = ties
    /\ UNCHANGED <<file, cache, df, out>>

Init == InitWith(SessionFiles)

Next ==
    \/ Render
    \/ \E f \in SessionFiles : WriteFile(f)
    \/ ClearCache

Spec == Init /\ [][Next]_vars

NextRender == Render

(***************************************************************************)
(* Tables that vary the annotation columns and share display names.       *)
(***************************************************************************)
AnnotCols == {"track_name", "album_title", "ai_theme", "ai_sentiment", "ai_notes",
              "ai_sentiment_category", "key_key", "key_scale"}

AnnotRows == [track_name : {"A", "B"}, album_title : {"X"},
              ai_theme : {"love", "SKIPPED", "ERROR", ""},
              ai_sentiment : {"sad"}, ai_notes : {"n"}, ai_sentiment_category : {"neg"},
              key_key : {"0"}, key_scale : {"major"}]

AnnotFiles ==
    Tables(AnnotRows, {AnnotCols, AnnotCols \ {"ai_sentiment"}, AnnotCols \ {"ai_theme"}})

InitAnnot == InitWith(AnnotFiles)

SpecAnnot == InitAnnot /\ [][NextRender]_vars

(***************************************************************************)
(* Properties.  In the specifications below the file is fixed, so row i   *)
(* of the working table is row i of the file.                              *)
(***************************************************************************)
Rendered == out.status \in {"ok", "error", "exception"} /\ "has_ai_analysis" \in df.cols

ListBuilt == Len(out.song_list) > 0

RowIds == 1..Len(df.rows)

Flag(i) == df.rows[i]["has_ai_analysis"]

Label(i) == df.rows[i]["display_name"]

\* The text of the file's ai_theme cell of row i is a value other than a failure marker.
RawThemeValid(i) ==
    /\ "ai_theme" \in file.cols
    /\ file.rows[i]["ai_theme"] \notin NA_VALUES
    /\ file.rows[i]["ai_theme"] \notin {"SKIPPED", "ERROR"}

RawThemeMarker(i) ==
    "ai_theme" \in file.cols /\ file.rows[i]["ai_theme"] \in {"SKIPPED", "ERROR"}

(* C4, as the claim states it: for every record, has_ai_analysis is true   *)
(* exactly when the record's ai_theme is present and is neither "SKIPPED"  *)
(* nor "ERROR".                                                            *)
C4_FlagIffThemeValid ==
    Rendered => \A i \in RowIds : Flag(i) <=> RawThemeValid(i)

(* C4, amended: for every record, has_ai_analysis is true exactly when the *)
(* table has all three columns ai_theme, ai_sentiment and ai_notes and the *)
(* record's ai_theme is present and is neither "SKIPPED" nor "ERROR"; when *)
(* one of the three columns is absent the flag is false for every record.  *)
C4_FlagIffColumnsAndThemeValid ==
    Rendered =>
        \A i \in RowIds : Flag(i) <=> (AI_COLS_CHECK \subseteq file.cols /\ RawThemeValid(i))

\* A table with all three columns, rendered, with an annotated record, a
\* record marked ERROR and a record without a theme.
C4_Witness ==
    /\ Rendered
    /\ AI_COLS_CHECK \subseteq file.cols
    /\ \E i, j, k \in RowIds :
        /\ Flag(i)
        /\ ~Flag(j) /\ file.rows[j]["ai_theme"] = "ERROR"
        /\ ~Flag(k) /\ file.rows[k]["ai_theme"] = ""

Annotated(l) == \E i \in RowIds : Label(i) = l /\ Flag(i)

Position(l) == CHOOSE k \in 1..Len(out.song_list) : out.song_list[k] = l

(* C5, as the claim states it: the overview entry is first, and for every  *)
(* pair of records with different display names, an annotated record's    *)
(* name comes before an unannotated record's, and two records of the same *)
(* annotation status have their names in lexicographic order.             *)
C5_RecordsInOrder ==
    ListBuilt =>
        /\ out.song_list[1] = OVERVIEW
        /\ \A a, b \in RowIds :
            Label(a) /= Label(b) =>
                /\ (Flag(a) /\ ~Flag(b)) => Position(Label(a)) < Position(Label(b))
                /\ (Flag(a) = Flag(b) /\ StrLess(Label(a), Label(b)))
                       => Position(Label(a)) < Position(Label(b))

(* C5, amended: the overview entry is first and is followed by every      *)
(* distinct display name exactly once; a name carried by at least one     *)
(* annotated record comes before every name carried only by unannotated   *)
(* records, and within each of these two groups of names the order is     *)
(* lexicographic.                                                          *)
C5_NamesInOrder ==
    ListBuilt =>
        LET L == out.song_list IN
        /\ L[1] = OVERVIEW
        /\ {L[k] : k \in 2..Len(L)} = {Label(i) : i \in RowIds}
        /\ Len(L) = 1 + Cardinality({Label(i) : i \in RowIds})
        /\ \A p, q \in 2..Len(L) :
            p < q =>
                /\ Annotated(L[q]) => Annotated(L[p])
                /\ (Annotated(L[p]) = Annotated(L[q])) => StrLess(L[p], L[q])

\* A list with an annotated name that sorts after an unannotated one, and a
\* name shared by an annotated and an unannotated record.
C5_Witness ==
    /\ ListBuilt
    /\ \E a, b, c \in RowIds :
        /\ Flag(a) /\ ~Flag(b) /\ StrLess(Label(b), Label(a))
        /\ ~Flag(c) /\ Label(c) = Label(a)

\* The entries of a chart count exactly the annotated records per value of column.
CountsAnnotated(c, column) ==
    \A k \in 1..Len(c.data) :
        /\ c.data[k].value \notin FAILURE_MARKERS \/ column /= "ai_theme"
        /\ c.data[k].count =
               Cardinality({j \in RowIds : Flag(j) /\ df.rows[j][column] = c.data[k].value})

\* What the overview shows of a record whose ai_theme is a failure marker,
\* and that its display name is in the selection list.
MarkerAggregates(i) ==
    /\ ListBuilt => \E k \in 2..Len(out.song_list) : out.song_list[k] = Label(i)
    /\ out.view = "overview" =>
        /\ ~Flag(i)
        /\ out.songs_with_ai = Cardinality({j \in RowIds : Flag(j)})
        /\ CountsAnnotated(out.chart_theme, "ai_theme")
        /\ CountsAnnotated(out.chart_sentiment, "ai_sentiment_category")

DetailOf(i) == out.view = "detail" /\ out.status = "ok" /\ out.selected = Label(i)

NoAnalysisShown ==
    /\ ~out.ai_block.shown
    /\ out.ai_block.theme \notin FAILURE_MARKERS
    /\ \A c \in DOMAIN out.other_fields : out.other_fields[c] \notin FAILURE_MARKERS

FirstWithLabel(i) == \A j \in RowIds : j < i => Label(j) /= Label(i)

(* C7, as the claim states it: a record whose ai_theme is "SKIPPED" or    *)
(* "ERROR" is counted in neither annotation chart nor in the annotated    *)
(* counter, its display name is in the selection list, and selecting its  *)
(* display name shows the "no AI analysis" placeholder, the marker being  *)
(* shown neither in the annotation block nor in the catch-all table.      *)
C7_MarkerRecordHidden ==
    Rendered =>
        \A i \in RowIds :
            RawThemeMarker(i) =>
                /\ MarkerAggregates(i)
                /\ DetailOf(i) => NoAnalysisShown

(* C7, amended: a record whose ai_theme is "SKIPPED" or "ERROR" is counted *)
(* in neither annotation chart nor in the annotated counter and its        *)
(* display name is in the selection list; selecting its display name shows *)
(* the "no AI analysis" placeholder, without the marker, when no earlier   *)
(* record of the file has the same display name (otherwise the view is     *)
(* that of the earlier record).                                            *)
C7_MarkerRecordHiddenWhenFirst ==
    Rendered =>
        \A i \in RowIds :
            RawThemeMarker(i) =>
                /\ MarkerAggregates(i)
                /\ (DetailOf(i) /\ FirstWithLabel(i)) =>
                       (out.song_index = i /\ NoAnalysisShown)

\* The detail view of a SKIPPED record that is the first of its name, in a
\* table that also has an annotated record.
C7_WitnessDetail ==
    /\ Rendered
    /\ AI_COLS_CHECK \subseteq file.cols
    /\ \E i, j \in RowIds :
        /\ file.rows[i]["ai_theme"] = "SKIPPED" /\ DetailOf(i) /\ FirstWithLabel(i)
        /\ Flag(j)

(***************************************************************************)
(* Properties of the session: renders interleaved with changes of the     *)
(* file and clearings of the cache (Spec).                                 *)
(***************************************************************************)
(* C1: a render that happens after the file's content changed never uses  *)
(* the table parsed from the older content: the table every render works  *)
(* on is the parse of the file as it is at that render.                    *)
C1_RenderUsesCurrentFile ==
    [][NextRender => cache'.value = load_data_from_disk(file)]_vars

\* The table the cache holds, as main() completes it before the selection.
CachedTable ==
    WithDisplayName(WithIdentity(WithFlag([cols |-> cache.value.cols,
                                           rows |-> cache.value.rows])))

CachedMatches == {i \in 1..Len(CachedTable.rows) :
                      CachedTable.rows[i]["display_name"] = out.selected}

\* The detail branch of main() (lines 311-382) run on the working table for
\* a name that no record of it has.
StaleDetail == Detail(df, NoLabel, BlankOut)

(* C6: the detail view of a display name shows the first record, in file  *)
(* order, of the loaded table with that name, so that every selection of  *)
(* the name resolves to the same record for as long as the loaded table   *)
(* is the cached one; the select box returns only names of the list, so a *)
(* selected name always has a record, and the detail branch run for a     *)
(* name no record has reports an error and displays no record.            *)
C6_FirstMatchOrError ==
    /\ (out.view = "detail" /\ cache.full /\ cache.value.ok) =>
           /\ CachedMatches /= {}
           /\ LET first == CHOOSE i \in CachedMatches : \A j \in CachedMatches : i <= j
                  r == cache.value.rows[first]
              IN  /\ out.status = "ok"
                  /\ out.song_index = first
                  /\ df.rows[out.song_index]["ai_theme"] = r["ai_theme"]
                  /\ out.title = r["track_name"]
                  /\ out.album = r["album_title"]
                  /\ out.ai_block.shown = (r["ai_theme"] \notin FAILURE_MARKERS)
                  /\ out.ai_block.shown => out.ai_block.theme = r["ai_theme"]
    /\ "display_name" \in df.cols =>
           /\ StaleDetail.status = "error"
           /\ StaleDetail.song_index = 0
           /\ StaleDetail.title = NaN /\ StaleDetail.album = NaN
           /\ StaleDetail.lyrics = NaN /\ StaleDetail.ai_block = NoAiBlock
           /\ StaleDetail.credits = NoFields /\ StaleDetail.other_fields = NoFields

\* A detail view of a name that three records share, the first of them
\* SKIPPED and a later one annotated, shown while the file on disk has
\* already been replaced.
C6_Witness ==
    /\ out.view = "detail" /\ out.status = "ok" /\ cache.full
    /\ Cardinality(CachedMatches) = 3
    /\ out.song_index = 1
    /\ cache.value.rows[1]["ai_theme"] = Str("SKIPPED")
    /\ cache.value.rows[2]["ai_theme"] = Str("love")
    /\ load_data_from_disk(file) /= cache.value

(***************************************************************************)
(* Tables that vary the text of the numeric feature columns (SpecLoad).   *)
(***************************************************************************)
LoadCols == {"track_name", "album_title", "mood_happy", "danceability", "key_key",
             "key_scale"}

LoadRows == [track_name : {"A"}, album_title : {"X"}, mood_happy : {"0.7", "abc"},
             danceability : {"0.5", "abc"}, key_key : {"0", "abc"},
             key_scale : {"major"}]

LoadFiles == Tables(LoadRows, {LoadCols})

InitLoad == InitWith(LoadFiles)

SpecLoad == InitLoad /\ [][NextRender]_vars

\* The numeric-feature set the claim names.
NumericFeatureFields == Range(MOOD_COLS) \cup {"danceability", "key_key"}

(* C3: after a successful load every value of every numeric-feature field *)
(* (the mood sub-scores, danceability, key_key) is a number or missing,   *)
(* and no render ends in an exception.                                     *)
C3_NumericFieldsCoerced ==
    /\ (cache.full /\ cache.value.ok) =>
           \A i \in 1..Len(cache.value.rows) :
               \A c \in NumericFeatureFields \cap cache.value.cols :
                   cache.value.rows[i][c].t \in {"num", "nan"}
    /\ out.status /= "exception"

(***************************************************************************)
(* Tables in which each column an overview chart reads is absent, all     *)
(* missing, or has data (SpecOverview).                                    *)
(***************************************************************************)
ChartCols == {"genre_ros", "key_key", "key_scale", "timbre", "mood_happy",
              "danceability", "ai_sentiment_category"}

OverviewFixedCols == {"track_name", "album_title", "ai_theme", "ai_sentiment", "ai_notes"}

\* Row i of the table: the fixed columns, and for a chart column the empty
\* text when it is all missing, else a value in the first row only.
OverviewCell(c, st, i) ==
    CASE c = "track_name" -> IF i = 1 THEN "A" ELSE "B"
      [] c = "album_title" -> "X"
      [] c = "ai_theme" -> "love"
      [] c = "ai_sentiment" -> "sad"
      [] c = "ai_notes" -> "n"
      [] st[c] = "missing" \/ i > 1 -> ""
      [] c = "genre_ros" -> "rock"
      [] c = "key_key" -> "0"
      [] c = "key_scale" -> "major"
      [] c = "timbre" -> "bright"
      [] c = "mood_happy" -> "0.7"
      [] c = "danceability" -> "0.5"
      [] c = "ai_sentiment_category" -> "neg"

OverviewTable(st) ==
    LET cols == OverviewFixedCols \cup {c \in ChartCols : st[c] /= "absent"} IN
    [state |-> "csv", cols |-> cols,
     rows |-> [i \in 1..2 |-> [c \in cols |-> OverviewCell(c, st, i)]]]

OverviewFiles == {OverviewTable(st) : st \in [ChartCols -> {"absent", "missing", "data"}]}

InitOverview == InitWith(OverviewFiles)

SpecOverview == InitOverview /\ [][NextRender]_vars

\* Column c of the file is absent or has no value.
Unusable(c) ==
    c \notin file.cols \/ \A i \in 1..Len(file.rows) : file.rows[i][c] \in NA_VALUES

\* The charts of the overview with the columns each needs.
ChartNeeds ==
    [genre |-> {"genre_ros"}, ks |-> {"key_key", "key_scale"}, timbre |-> {"timbre"},
     mood_happy |-> {"mood_happy"}, dance |-> {"danceability"},
     sentiment |-> {"ai_sentiment_category"}]

ChartShown(name) ==
    CASE name = "genre" -> out.chart_genre.drawn
      [] name = "ks" -> out.chart_ks.drawn
      [] name = "timbre" -> out.chart_timbre.drawn
      [] name = "mood_happy" -> out.chart_mood["mood_happy"].drawn
      [] name = "dance" -> out.chart_dance.drawn
      [] name = "sentiment" -> out.chart_sentiment.drawn

(* C2: when a column an overview chart expects is absent or all missing,  *)
(* the overview skips exactly the charts that need it and completes       *)
(* normally, with every other chart and the counters; it never ends in an *)
(* uncaught failure.                                                       *)
C2_OverviewDegradesPerChart ==
    (out.selected = OVERVIEW \/ out.status = "exception") =>
        /\ out.status = "ok"
        /\ out.total_songs = Len(file.rows)
        /\ \A name \in DOMAIN ChartNeeds :
               ChartShown(name) <=> ~(\E c \in ChartNeeds[name] : Unusable(c))

(***************************************************************************)
(* Tables that vary the key index and the scale (SpecKey), with direct    *)
(* calls of plot_categorical_chart on key_key.                             *)
(***************************************************************************)
KeyCols == {"track_name", "album_title", "key_key", "key_scale"}

KeyRows == [track_name : {"A"}, album_title : {"X"}, key_key : {"0", "11", "12", ""},
            key_scale : {"major", ""}]

KeyFiles == Tables(KeyRows, {KeyCols})

InitKey == InitWith(KeyFiles)

NextKey ==
    \/ Render
    \/ \E n \in 1..MaxTopN : PlotCategorical("key_key", n)

SpecKey == InitKey /\ [][NextKey]_vars

\* The note names of the key indices 0..11, as the specification lists them.
NOTE_NAMES == <<"C", "C#", "D", "D#", "E", "F", "F#", "G", "G#", "A", "A#", "B">>

\* Row i of the file has key index k (a whole number) and, for the key +
\* scale chart, the scale sc.
HasKey(i, k) ==
    file.rows[i]["key_key"] \in DOMAIN ParseFloat /\ ParseFloat[file.rows[i]["key_key"]] = 10 * k

HasKeyAndScale(i, k, sc) == HasKey(i, k) /\ file.rows[i]["key_scale"] = sc

(* C8: in the key chart and in the key + scale chart, index 0 is "C", 1   *)
(* is "C#", ..., 11 is "B", and a record with any other key index is      *)
(* missing: every category of either chart is a note name (with a scale,  *)
(* in the key + scale chart) and counts the records of that key index     *)
(* (and scale) alone.                                                      *)
C8_KeyOutsideTableIsMissing ==
    /\ (chart.called /\ chart.column = "key_key") =>
        \A e \in Range(chart.result.data) :
            \E k \in 0..11 :
                /\ e.value = Str(NOTE_NAMES[k + 1])
                /\ e.count = Cardinality({i \in 1..Len(file.rows) : HasKey(i, k)})
    /\ (out.view = "overview" /\ out.status = "ok") =>
        \A e \in Range(out.chart_ks.data) :
            \E k \in 0..11, sc \in {"major", "minor"} :
                /\ e.value = Str(NOTE_NAMES[k + 1] \o " " \o sc)
                /\ e.count = Cardinality({i \in 1..Len(file.rows) : HasKeyAndScale(i, k, sc)})

(***************************************************************************)
(* Tables that vary a categorical column (SpecChart), with direct calls   *)
(* of plot_categorical_chart for each cap.                                 *)
(***************************************************************************)
GenreCols == {"track_name", "album_title", "genre_ros", "key_key", "key_scale"}

GenreRows == [track_name : {"A"}, album_title : {"X"},
              genre_ros : {"rock", "pop", ""}, key_key : {"0"},
              key_scale : {"major"}]

GenreFiles == Tables(GenreRows, {GenreCols})

InitChart == InitWith(GenreFiles)

NextChart ==
    \/ Render
    \/ \E column \in {"genre_ros", "timbre"}, n \in 1..MaxTopN : PlotCategorical(column, n)

SpecChart == InitChart /\ [][NextChart]_vars

\* The texts of the column in the file that are values, and what the
\* chart should know of each.
FileValues(column) ==
    IF column \in file.cols
    THEN {file.rows[i][column] : i \in 1..Len(file.rows)} \ NA_VALUES
    ELSE {}

FileCount(column, v) == Cardinality({i \in 1..Len(file.rows) : file.rows[i][column] = v})

FirstSeen(column, v) ==
    CHOOSE i \in 1..Len(file.rows) :
        file.rows[i][column] = v /\ \A j \in 1..(i - 1) : file.rows[j][column] /= v

\* The data of the last direct call is what the cap leaves of the counts:
\* at most top_n entries, one per value of the column, each a value that is
\* not missing with the number of its records, in descending order of
\* count, and no value left out has more records than a value kept.
TopNByCount ==
    LET d == chart.result.data
        column == chart.column
        kept == {d[k].value.s : k \in 1..Len(d)}
    IN  /\ chart.result.drawn <=> FileValues(column) /= {}
        /\ Len(d) = Min(chart.top_n, Cardinality(FileValues(column)))
        /\ \A j, k \in 1..Len(d) : d[j].value = d[k].value => j = k
        /\ \A k \in 1..Len(d) :
               /\ d[k].value.t = "str" /\ d[k].value.s \in FileValues(column)
               /\ d[k].count = FileCount(column, d[k].value.s)
        /\ \A k \in 1..(Len(d) - 1) : d[k].count >= d[k + 1].count
        /\ \A v \in FileValues(column) \ kept :
               \A w \in kept : FileCount(column, w) >= FileCount(column, v)

\* Two calls on the same table and column give the values in the same
\* order: the data of the smaller cap is the beginning of the other's.
SameOrderAsBefore ==
    (chart.called /\ chart'.called /\ chart'.table = chart.table
        /\ chart'.column = chart.column) =>
        LET n == Min(chart.top_n, chart'.top_n)
        IN  Head_n(chart'.result.data, n) = Head_n(chart.result.data, n)

FieldsBaseCols == {"track_name", "key_key", "key_scale", "mood_happy"}

FieldsExtraCols == {"bpm", "key_name", "mood_happy_bin", "lyrics_text"}

FieldsRows == [track_name : {"A", "7"}, album_title : {"X"}, key_key : {"0", ""},
               key_scale : {"major"}, mood_happy : {"0.7"}, bpm : {"7"},
               key_name : {"Q"}, mood_happy_bin : {"z"}, lyrics_text : {"la"}]

FieldsFiles ==
    Tables(FieldsRows,
           {FieldsBaseCols \cup album \cup extra :
                album \in {{}, {"album_title"}}, extra \in {{}, FieldsExtraCols}})

InitFields == InitWith(FieldsFiles)

SpecFields == InitFields /\ [][NextRender]_vars

\* The columns the charts derive.
EphemeralCols ==
    {"key_name", "key_scale_combined"} \cup {m \o "_bin" : m \in Range(MOOD_COLS)}

\* The columns main() adds to the loaded table.
DerivedCols == {"has_ai_analysis", "display_name", "track_name", "album_title"}

(* C10: the table a render works on holds only the loaded source fields,  *)
(* has_ai_analysis, display_name and the placeholder identity columns;    *)
(* the cached table holds only the source fields; and key_name,           *)
(* key_scale_combined and <mood>_bin never appear in the catch-all field  *)
(* table of a detail view.                                                 *)
C10_NoEphemeralColumnLeaks ==
    /\ (cache.full /\ cache.value.ok) => cache.value.cols = file.cols
    /\ out.status \in {"ok", "error", "exception"} =>
           /\ df.cols \subseteq file.cols \cup DerivedCols
           /\ \A i \in 1..Len(df.rows) : DOMAIN df.rows[i] = df.cols
    /\ out.view = "detail" =>
           /\ DOMAIN out.other_fields \cap EphemeralCols = {}
           /\ DOMAIN out.other_fields \subseteq file.cols

\* An overview that drew the key + scale chart and a mood chart, each from
\* a derived column, over a table that has no column of those names.
C10_Witness ==
    /\ out.view = "overview" /\ out.status = "ok"
    /\ out.chart_ks.drawn /\ out.chart_ks.column = "key_scale_combined"
    /\ out.chart_mood["mood_happy"].drawn
    /\ file.cols \cap EphemeralCols = {}
    /\ "album_title" \notin file.cols

====
